---------------------------- MODULE Spec2Model ----------------------------
(* A model of the Adafruit TCS34725 colour-sensor driver                   *)
(* (Adafruit_TCS34725.cpp).  The driver is single-threaded and blocking:   *)
(* every public method is one atomic step.  The order of the bus           *)
(* transactions and delays inside a method is kept in `log`, the event     *)
(* trace of the most recent call.                                          *)
EXTENDS Integers, Sequences, FiniteSets, TLC

VARIABLES
    tcs34725Initialised,      \* bool   _tcs34725Initialised
    tcs34725IntegrationTime,  \* code   _tcs34725IntegrationTime
    tcs34725Gain,             \* code   _tcs34725Gain
    regENABLE,                \* the device's ENABLE register
    regATIME,                 \* last value written to ATIME, or Unwritten
    regCONTROL,               \* last value written to CONTROL, or Unwritten
    devID,                    \* the byte the device answers for the ID register
    log,                      \* bus and delay events of the most recent call
    ret,                      \* return value of the most recent call
    out,                      \* the caller's *r, *g, *b, *c after the call
    call,                     \* the most recent call: method, argument, state before
    dn,                       \* input and result of the last DN40 computation
    lx,                       \* input and result of the last calculateLux
    nest                      \* deepest nesting of begin() in the most recent call

vars == << tcs34725Initialised, tcs34725IntegrationTime, tcs34725Gain,
           regENABLE, regATIME, regCONTROL, devID,
           log, ret, out, call, dn, lx, nest >>

-----------------------------------------------------------------------------
(* Bounds of the model.                                                    *)

\* The device's channel registers hold one of the samples 0..MaxSample when
\* they are read.
MaxSample == 1
\* The clear-channel inputs tried around each saturation level: sat-Margin..sat+Margin.
Margin == 1

-----------------------------------------------------------------------------
(* Constants of Adafruit_TCS34725.h.                                       *)

TCS34725_ENABLE_PON  == 1
TCS34725_ENABLE_AEN  == 2
TCS34725_ENABLE_AIEN == 16

TCS34725_INTEGRATIONTIME_2_4MS == 255
TCS34725_INTEGRATIONTIME_24MS  == 246
TCS34725_INTEGRATIONTIME_50MS  == 235
TCS34725_INTEGRATIONTIME_101MS == 213
TCS34725_INTEGRATIONTIME_154MS == 192
TCS34725_INTEGRATIONTIME_700MS == 0

TCS34725_GAIN_1X  == 0
TCS34725_GAIN_4X  == 1
TCS34725_GAIN_16X == 2
TCS34725_GAIN_60X == 3

tcs34725IntegrationTime_t ==
    { TCS34725_INTEGRATIONTIME_2_4MS, TCS34725_INTEGRATIONTIME_24MS,
      TCS34725_INTEGRATIONTIME_50MS,  TCS34725_INTEGRATIONTIME_101MS,
      TCS34725_INTEGRATIONTIME_154MS, TCS34725_INTEGRATIONTIME_700MS }

tcs34725Gain_t ==
    { TCS34725_GAIN_1X, TCS34725_GAIN_4X, TCS34725_GAIN_16X, TCS34725_GAIN_60X }

\* The identity bytes begin() accepts.
ID_TCS34725 == 68
ID_TCS34721 == 16
\* An identity byte of some other device.
ID_OTHER == 0

\* The identity bytes a device on the bus may answer.
DeviceIDs == { ID_TCS34725, ID_TCS34721, ID_OTHER }

\* A register the driver has not written yet.
Unwritten == -1
\* A caller's output variable the call has not written.
Unset == -1
NoOut == [r |-> Unset, g |-> Unset, b |-> Unset, c |-> Unset]

-----------------------------------------------------------------------------
(* Fixed-width arithmetic.                                                 *)

U8(x)  == x % 256
U16(x) == x % 65536

Bit(x, i) == (x \div (2 ^ i)) % 2

\* a & b on bytes
And8(a, b) ==
    LET bitval(i) == Bit(a, i) * Bit(b, i) * (2 ^ i)
    IN  bitval(0) + bitval(1) + bitval(2) + bitval(3)
        + bitval(4) + bitval(5) + bitval(6) + bitval(7)

\* a | b on bytes
Or8(a, b) == a + b - And8(a, b)

\* ~a & 0xFF
Not8(a) == 255 - a

-----------------------------------------------------------------------------
(* The driver and the device as one value, threaded through a call.        *)

World ==
    [ init  |-> tcs34725Initialised,
      it    |-> tcs34725IntegrationTime,
      gain  |-> tcs34725Gain,
      en    |-> regENABLE,
      atime |-> regATIME,
      ctrl  |-> regCONTROL,
      sample |-> 0,
      depth |-> 0,
      deep  |-> 0,
      log   |-> << >>,
      ret   |-> "void",
      out   |-> NoOut ]

Event(op, reg, val) == [op |-> op, reg |-> reg, val |-> val]

\* delay(ms)
delay(w, ms) == [w EXCEPT !.log = Append(@, Event("delay", "-", ms))]

\* write8(reg, value): the byte value & 0xFF reaches the register.
write8(w, reg, value) ==
    LET v  == U8(value)
        w1 == [w EXCEPT !.log = Append(@, Event("write8", reg, v))]
    IN  CASE reg = "ENABLE"  -> [w1 EXCEPT !.en = v]
          [] reg = "ATIME"   -> [w1 EXCEPT !.atime = v]
          [] reg = "CONTROL" -> [w1 EXCEPT !.ctrl = v]
          [] OTHER           -> w1

\* The byte the device answers when an 8-bit register is read.
DeviceByte(w, reg) ==
    CASE reg = "ID"     -> devID
      [] reg = "ENABLE" -> w.en
      [] OTHER          -> 0

\* read8(reg): the world after the read (the read is logged with its value).
read8(w, reg) ==
    [w EXCEPT !.log = Append(@, Event("read8", reg, DeviceByte(w, reg)))]

\* The 16-bit count the device holds in a channel register.
ChannelData(sample, reg) ==
    LET k == CASE reg = "CDATAL" -> 0
               [] reg = "RDATAL" -> 1
               [] reg = "GDATAL" -> 2
               [] reg = "BDATAL" -> 3
    IN  U16(sample * 21845 + 4660 + k * 257)

\* read16(reg): low byte first, x <<= 8; x |= t.
read16Value(w, reg) ==
    LET t == ChannelData(w.sample, reg) % 256
        x == ChannelData(w.sample, reg) \div 256
    IN  U16(x * 256) + t

read16(w, reg) ==
    [w EXCEPT !.log = Append(@, Event("read16", reg, read16Value(w, reg)))]

-----------------------------------------------------------------------------
(* The driver's methods, as functions from the world before to the world   *)
(* after.                                                                  *)

\* A variant of enableSettle with the delays of 50 ms and 101 ms exchanged.
enableSettle_swapped(w) ==
    CASE w.it = TCS34725_INTEGRATIONTIME_2_4MS -> delay(w, 3)
      [] w.it = TCS34725_INTEGRATIONTIME_24MS  -> delay(w, 24)
      [] w.it = TCS34725_INTEGRATIONTIME_50MS  -> delay(w, 101)
      [] w.it = TCS34725_INTEGRATIONTIME_101MS -> delay(w, 50)
      [] w.it = TCS34725_INTEGRATIONTIME_154MS -> delay(w, 154)
      [] w.it = TCS34725_INTEGRATIONTIME_700MS -> delay(w, 700)
      [] OTHER -> w

\* switch (_tcs34725IntegrationTime) of enable(): one delay, or none when no
\* case matches.
enableSettle(w) ==
    CASE w.it = TCS34725_INTEGRATIONTIME_2_4MS -> delay(w, 3)
      [] w.it = TCS34725_INTEGRATIONTIME_24MS  -> delay(w, 24)
      [] w.it = TCS34725_INTEGRATIONTIME_50MS  -> delay(w, 50)
      [] w.it = TCS34725_INTEGRATIONTIME_101MS -> delay(w, 101)
      [] w.it = TCS34725_INTEGRATIONTIME_154MS -> delay(w, 154)
      [] w.it = TCS34725_INTEGRATIONTIME_700MS -> delay(w, 700)
      [] OTHER -> w

\* A variant of enable that returns as soon as it has set AEN.
enable_noSettle(w) ==
    LET w1 == write8(w, "ENABLE", TCS34725_ENABLE_PON)
        w2 == delay(w1, 3)
    IN  write8(w2, "ENABLE", Or8(TCS34725_ENABLE_PON, TCS34725_ENABLE_AEN))

enable(w) ==
    LET w1 == write8(w, "ENABLE", TCS34725_ENABLE_PON)
        w2 == delay(w1, 3)
        w3 == write8(w2, "ENABLE", Or8(TCS34725_ENABLE_PON, TCS34725_ENABLE_AEN))
    IN  enableSettle(w3)

\* A variant of disable that writes 0, clearing every bit of ENABLE.
disable_clearAll(w) ==
    LET w1 == read8(w, "ENABLE")
    IN  write8(w1, "ENABLE", 0)

disable(w) ==
    LET w1  == read8(w, "ENABLE")
        reg == DeviceByte(w, "ENABLE")
    IN  write8(w1, "ENABLE",
               And8(reg, Not8(Or8(TCS34725_ENABLE_PON, TCS34725_ENABLE_AEN))))

\* A call of begin() starts: one more begin() is active.
beginEnter(w) ==
    [w EXCEPT !.depth = @ + 1,
              !.deep  = IF w.depth + 1 > @ THEN w.depth + 1 ELSE @]

\* A call of begin() returns.
beginLeave(w) == [w EXCEPT !.depth = @ - 1]

RECURSIVE begin(_), setIntegrationTime(_, _), setGain(_, _)

\* A variant of begin that accepts the identity 0x44 only.
begin_oneID(w) ==
    LET w1 == read8(beginEnter(w), "ID")
        x  == DeviceByte(w, "ID")
    IN  IF x # ID_TCS34725
        THEN beginLeave([w1 EXCEPT !.ret = "false"])
        ELSE LET w2 == [w1 EXCEPT !.init = TRUE]
                 w3 == setIntegrationTime(w2, w2.it)
                 w4 == setGain(w3, w3.gain)
                 w5 == enable(w4)
             IN  beginLeave([w5 EXCEPT !.ret = "true"])

\* A variant of begin that marks the instance initialised before it checks
\* the identity.
begin_flagFirst(w) ==
    LET w1 == [read8(beginEnter(w), "ID") EXCEPT !.init = TRUE]
        x  == DeviceByte(w, "ID")
    IN  IF x # ID_TCS34725 /\ x # ID_TCS34721
        THEN beginLeave([w1 EXCEPT !.ret = "false"])
        ELSE LET w3 == setIntegrationTime(w1, w1.it)
                 w4 == setGain(w3, w3.gain)
                 w5 == enable(w4)
             IN  beginLeave([w5 EXCEPT !.ret = "true"])

\* A variant of begin that marks the instance uninitialised when the identity
\* does not match.
begin_resetsOnFail(w) ==
    LET w1 == read8(beginEnter(w), "ID")
        x  == DeviceByte(w, "ID")
    IN  IF x # ID_TCS34725 /\ x # ID_TCS34721
        THEN beginLeave([w1 EXCEPT !.init = FALSE, !.ret = "false"])
        ELSE LET w2 == [w1 EXCEPT !.init = TRUE]
                 w3 == setIntegrationTime(w2, w2.it)
                 w4 == setGain(w3, w3.gain)
                 w5 == enable(w4)
             IN  beginLeave([w5 EXCEPT !.ret = "true"])

\* begin(): ret is the boolean returned, "true" or "false".
begin(w) ==
    LET w1 == read8(beginEnter(w), "ID")
        x  == DeviceByte(w, "ID")
    IN  IF x # ID_TCS34725 /\ x # ID_TCS34721
        THEN beginLeave([w1 EXCEPT !.ret = "false"])
        ELSE LET w2 == [w1 EXCEPT !.init = TRUE]
                 w3 == setIntegrationTime(w2, w2.it)
                 w4 == setGain(w3, w3.gain)
                 w5 == enable(w4)
             IN  beginLeave([w5 EXCEPT !.ret = "true"])

\* A variant of setIntegrationTime that writes ATIME and leaves the stored
\* value as it was.
setIntegrationTime_noStore(w, it) ==
    LET w1 == IF ~w.init THEN begin(w) ELSE w
        w2 == write8(w1, "ATIME", it)
    IN  [w2 EXCEPT !.ret = "void"]

\* A variant of setIntegrationTime that writes ATIME before it initialises.
setIntegrationTime_writeFirst(w, it) ==
    LET w1 == write8(w, "ATIME", it)
        w2 == IF ~w1.init THEN begin(w1) ELSE w1
    IN  [w2 EXCEPT !.it = it, !.ret = "void"]

setIntegrationTime(w, it) ==
    LET w1 == IF ~w.init THEN begin(w) ELSE w
        w2 == write8(w1, "ATIME", it)
    IN  [w2 EXCEPT !.it = it, !.ret = "void"]

setGain(w, gain) ==
    LET w1 == IF ~w.init THEN begin(w) ELSE w
        w2 == write8(w1, "CONTROL", gain)
    IN  [w2 EXCEPT !.gain = gain, !.ret = "void"]

\* switch (_tcs34725IntegrationTime) of getRawData().
getRawDataSettle(w) ==
    CASE w.it = TCS34725_INTEGRATIONTIME_2_4MS -> delay(w, 3)
      [] w.it = TCS34725_INTEGRATIONTIME_24MS  -> delay(w, 24)
      [] w.it = TCS34725_INTEGRATIONTIME_50MS  -> delay(w, 50)
      [] w.it = TCS34725_INTEGRATIONTIME_101MS -> delay(w, 101)
      [] w.it = TCS34725_INTEGRATIONTIME_154MS -> delay(w, 154)
      [] w.it = TCS34725_INTEGRATIONTIME_700MS -> delay(w, 700)
      [] OTHER -> w

\* A variant of getRawData that reads red, green, blue and then clear.
getRawData_redFirst(w) ==
    LET w0 == IF ~w.init THEN begin(w) ELSE w
        w1 == [read16(w0, "RDATAL") EXCEPT !.out.r = read16Value(w0, "RDATAL")]
        w2 == [read16(w1, "GDATAL") EXCEPT !.out.g = read16Value(w0, "GDATAL")]
        w3 == [read16(w2, "BDATAL") EXCEPT !.out.b = read16Value(w0, "BDATAL")]
        w4 == [read16(w3, "CDATAL") EXCEPT !.out.c = read16Value(w0, "CDATAL")]
        w5 == getRawDataSettle(w4)
    IN  [w5 EXCEPT !.ret = "void"]

\* A variant of getRawData that returns without reading when begin() fails.
getRawData_guarded(w) ==
    LET w0 == IF ~w.init THEN begin(w) ELSE w
        w1 == [read16(w0, "CDATAL") EXCEPT !.out.c = read16Value(w0, "CDATAL")]
        w2 == [read16(w1, "RDATAL") EXCEPT !.out.r = read16Value(w0, "RDATAL")]
        w3 == [read16(w2, "GDATAL") EXCEPT !.out.g = read16Value(w0, "GDATAL")]
        w4 == [read16(w3, "BDATAL") EXCEPT !.out.b = read16Value(w0, "BDATAL")]
        w5 == getRawDataSettle(w4)
    IN  IF ~w0.init
        THEN [w0 EXCEPT !.ret = "void"]
        ELSE [w5 EXCEPT !.ret = "void"]

\* A variant of getRawData that calls begin() whether the instance is
\* initialised or not.
getRawData_alwaysBegin(w) ==
    LET w0 == begin(w)
        w1 == [read16(w0, "CDATAL") EXCEPT !.out.c = read16Value(w0, "CDATAL")]
        w2 == [read16(w1, "RDATAL") EXCEPT !.out.r = read16Value(w0, "RDATAL")]
        w3 == [read16(w2, "GDATAL") EXCEPT !.out.g = read16Value(w0, "GDATAL")]
        w4 == [read16(w3, "BDATAL") EXCEPT !.out.b = read16Value(w0, "BDATAL")]
        w5 == getRawDataSettle(w4)
    IN  [w5 EXCEPT !.ret = "void"]

getRawData(w) ==
    LET w0 == IF ~w.init THEN begin(w) ELSE w
        w1 == [read16(w0, "CDATAL") EXCEPT !.out.c = read16Value(w0, "CDATAL")]
        w2 == [read16(w1, "RDATAL") EXCEPT !.out.r = read16Value(w0, "RDATAL")]
        w3 == [read16(w2, "GDATAL") EXCEPT !.out.g = read16Value(w0, "GDATAL")]
        w4 == [read16(w3, "BDATAL") EXCEPT !.out.b = read16Value(w0, "BDATAL")]
        w5 == getRawDataSettle(w4)
    IN  [w5 EXCEPT !.ret = "void"]

\* A variant of getRawDataOneShot that does not run enable() again when it
\* has just initialised the instance.
getRawDataOneShot_noReenable(w) ==
    LET w0 == IF ~w.init THEN begin(w) ELSE w
        w1 == IF ~w.init /\ w0.init THEN w0 ELSE enable(w0)
        w2 == getRawData(w1)
        w3 == disable(w2)
    IN  [w3 EXCEPT !.ret = "void"]

getRawDataOneShot(w) ==
    LET w0 == IF ~w.init THEN begin(w) ELSE w
        w1 == enable(w0)
        w2 == getRawData(w1)
        w3 == disable(w2)
    IN  [w3 EXCEPT !.ret = "void"]

setInterrupt(w, i) ==
    LET w1 == read8(w, "ENABLE")
        r  == DeviceByte(w, "ENABLE")
        r2 == IF i THEN Or8(r, TCS34725_ENABLE_AIEN)
                   ELSE And8(r, Not8(TCS34725_ENABLE_AIEN))
    IN  write8(w1, "ENABLE", r2)

-----------------------------------------------------------------------------
(* The state machine: one step per public call.                            *)

\* The part of the state a call can change, as it was before the call.
Before ==
    [ init  |-> tcs34725Initialised,
      it    |-> tcs34725IntegrationTime,
      gain  |-> tcs34725Gain,
      en    |-> regENABLE,
      atime |-> regATIME,
      ctrl  |-> regCONTROL,
      id    |-> devID ]

\* What the call can do: return one of `values` or, with `trap`, not return.
Returns(values) == [trap |-> FALSE, values |-> values]

NoCall == [op |-> "constructor", arg |-> "-", pre |-> "-"]
NoDN   == [r |-> 0, g |-> 0, b |-> 0, c |-> 0, bits |-> 0, outcomes |-> Returns({})]
NoLux  == [r |-> 0, g |-> 0, b |-> 0, outcomes |-> Returns({})]

\* Commit(w): the state after the call that led to world w.
Commit(w) ==
    /\ tcs34725Initialised' = w.init
    /\ tcs34725IntegrationTime' = w.it
    /\ tcs34725Gain' = w.gain
    /\ regENABLE' = w.en
    /\ regATIME' = w.atime
    /\ regCONTROL' = w.ctrl
    /\ log' = w.log
    /\ ret' = w.ret
    /\ out' = w.out
    /\ nest' = w.deep
    /\ UNCHANGED << devID, dn, lx >>

\* The call op(arg), made in the current state.
Called(op, arg) == [op |-> op, arg |-> arg, pre |-> Before]

\* Adafruit_TCS34725(it, gain): nothing is written to the device; the device
\* is powered down.
Init ==
    /\ tcs34725Initialised = FALSE
    /\ tcs34725IntegrationTime \in tcs34725IntegrationTime_t
    /\ tcs34725Gain \in tcs34725Gain_t
    /\ regENABLE = 0
    /\ regATIME = Unwritten
    /\ regCONTROL = Unwritten
    /\ devID \in DeviceIDs
    /\ log = << >>
    /\ ret = "void"
    /\ out = NoOut
    /\ call = NoCall
    /\ dn = NoDN
    /\ lx = NoLux
    /\ nest = 0

Begin ==
    /\ call' = Called("begin", "-")
    /\ Commit(begin(World))

Enable ==
    /\ call' = Called("enable", "-")
    /\ Commit(enable(World))

Disable ==
    /\ call' = Called("disable", "-")
    /\ Commit(disable(World))

SetIntegrationTime ==
    \E it \in tcs34725IntegrationTime_t :
        /\ call' = Called("setIntegrationTime", it)
        /\ Commit(setIntegrationTime(World, it))

SetGain ==
    \E gain \in tcs34725Gain_t :
        /\ call' = Called("setGain", gain)
        /\ Commit(setGain(World, gain))

GetRawData ==
    \E k \in 0..MaxSample :
        /\ call' = Called("getRawData", k)
        /\ Commit(getRawData([World EXCEPT !.sample = k]))

GetRawDataOneShot ==
    \E k \in 0..MaxSample :
        /\ call' = Called("getRawDataOneShot", k)
        /\ Commit(getRawDataOneShot([World EXCEPT !.sample = k]))

SetInterrupt ==
    \E i \in BOOLEAN :
        /\ call' = Called("setInterrupt", i)
        /\ Commit(setInterrupt(World, i))

\* The environment: the device on the bus is replaced (or starts answering),
\* so that the identity byte read next differs.
SwapDevice ==
    /\ \E id \in DeviceIDs : id # devID /\ devID' = id
    /\ UNCHANGED << tcs34725Initialised, tcs34725IntegrationTime, tcs34725Gain,
                    regENABLE, regATIME, regCONTROL,
                    log, ret, out, call, dn, lx, nest >>

Next ==
    \/ Begin
    \/ Enable
    \/ Disable
    \/ SetIntegrationTime
    \/ SetGain
    \/ GetRawData
    \/ GetRawDataOneShot
    \/ SetInterrupt
    \/ SwapDevice

Spec == Init /\ [][Next]_vars

-----------------------------------------------------------------------------
(* calculateColorTemperature_dn40.                                         *)

\* The width of int on the build: 16 bits (AVR) or 32 bits (ESP8266, ARM).
IntBits == {16, 32}

\* A variant of saturationLevel without the reduction to 75%.
saturationLevel_noRipple(it) ==
    IF (256 - it) > 63
    THEN 65535
    ELSE U16(1024 * (256 - it))

\* uint16_t sat, after both saturation blocks.  1024 * (256 - it) is an int
\* product stored in a uint16_t: its low 16 bits.
saturationLevel(it) ==
    LET sat0 == IF (256 - it) > 63
                THEN 65535
                ELSE U16(1024 * (256 - it))
    IN  IF (256 - it) <= 63
        THEN U16(sat0 - (sat0 \div 4))
        ELSE sat0

\* uint16_t ir = (r + g + b > c) ? (r + g + b - c) / 2 : 0.  The operands
\* are promoted to int, which holds the sum when it is 32 bits wide and is
\* unsigned int, wrapping at 2^16, when it is 16 bits wide.
inferredIR(bits, r, g, b, c) ==
    LET sum  == IF bits = 16 THEN U16(r + g + b) ELSE r + g + b
        diff == IF bits = 16 THEN U16(sum - c) ELSE sum - c
    IN  IF sum > c THEN U16(diff \div 2) ELSE 0

\* uint16_t r2, g2, b2: the raw values minus ir, each an unsigned 16-bit
\* difference.
removeIR(bits, r, g, b, c) ==
    LET ir == inferredIR(bits, r, g, b, c)
    IN  [ ir |-> ir,
          r2 |-> U16(r - ir),
          g2 |-> U16(g - ir),
          b2 |-> U16(b - ir) ]

\* switch (_tcs34725Gain): gain_int
gainMultiplier(gain) ==
    CASE gain = TCS34725_GAIN_4X  -> 4
      [] gain = TCS34725_GAIN_16X -> 16
      [] gain = TCS34725_GAIN_60X -> 60
      [] OTHER -> 1

\* What a division of a uint32_t by zero can do: trap, or leave a quotient
\* of 0 or of 0xFFFFFFFF, which + 1391 is 1391 or, wrapped at 2^32, 1390.
DivideByZeroOutcomes == [trap |-> TRUE, values |-> {1391, 1390}]

\* a / b of C on integers of either sign: the quotient truncated toward 0.
TruncDiv(a, b) ==
    LET abs(x) == IF x < 0 THEN 0 - x ELSE x
        q == abs(a) \div abs(b)
    IN  IF (a < 0) = (b < 0) THEN q ELSE 0 - q

\* float cpl = (((256 - it) * 2.4f) * gain_int) / (1.0f * 310.0f), as the
\* fraction num / den (the rounding of float is left out).
countsPerLux(it, gain_int) ==
    [num |-> (256 - it) * 24 * gain_int, den |-> 3100]

\* int gl = 0.136f * r2 + 1.000f * g2 - 0.444f * b2, truncated.
initialLux(r2, g2, b2) ==
    TruncDiv((136 * r2) + (1000 * g2) - (444 * b2), 1000)

\* float lux = gl / cpl, as the fraction num / den.
luxEstimate(gl, cpl) == [num |-> gl * cpl.den, den |-> cpl.num]

\* A variant of calculateColorTemperature_dn40 that returns the lux estimate
\* of an unsaturated sample in place of its colour temperature.
calculateColorTemperature_dn40_lux(bits, it, gain, r, g, b, c) ==
    LET sat == saturationLevel(it)
        rgb == removeIR(bits, r, g, b, c)
        cpl == countsPerLux(it, gainMultiplier(gain))
        lux == luxEstimate(initialLux(rgb.r2, rgb.g2, rgb.b2), cpl)
    IN  IF c >= sat
        THEN Returns({0})
        ELSE Returns({U16(TruncDiv(lux.num, lux.den))})

\* What calculateColorTemperature_dn40(r, g, b, c) can return, with
\* integration time `it` and gain `gain` stored.  cpl, gl and lux (and der,
\* max_lux) are computed from gain_int and never used; 3810 * b2 is below
\* 2^32.
calculateColorTemperature_dn40(bits, it, gain, r, g, b, c) ==
    LET sat == saturationLevel(it)
        rgb == removeIR(bits, r, g, b, c)
        r2  == rgb.r2
        g2  == rgb.g2
        b2  == rgb.b2
        gain_int == gainMultiplier(gain)
        cpl == countsPerLux(it, gain_int)
        gl  == initialLux(r2, g2, b2)
        lux == luxEstimate(gl, cpl)
    IN  IF c >= sat
        THEN Returns({0})
        ELSE IF r2 = 0
             THEN DivideByZeroOutcomes
             ELSE Returns({U16(((3810 * b2) \div r2) + 1391)})

\* The saturation level of spec section 4.5 step 1, in unbounded integers.
SpecSat(it) ==
    IF (256 - it) > 63
    THEN 65535
    ELSE (1024 * (256 - it)) - ((1024 * (256 - it)) \div 4)

\* Inputs of the DN40 computation: channel counts at the ends and in the
\* middle of the 16-bit range, clear counts around every saturation level.
ChannelCounts == {0, 1, 30000, 65535}
ClearCounts ==
    {0, 65535} \cup
    { x \in { SpecSat(it) + d : it \in tcs34725IntegrationTime_t,
                                d \in (0 - Margin)..Margin } :
        x >= 0 /\ x <= 65535 }

\* One call of the function per behaviour: it is pure, its result depends on
\* its arguments and on the stored integration time and gain only.
CalcDN40 ==
    /\ dn = NoDN
    /\ \E bits \in IntBits, r \in ChannelCounts, g \in ChannelCounts,
          b \in ChannelCounts, c \in ClearCounts :
          dn' = [ r |-> r, g |-> g, b |-> b, c |-> c, bits |-> bits,
                  outcomes |-> calculateColorTemperature_dn40(
                                   bits, tcs34725IntegrationTime, tcs34725Gain,
                                   r, g, b, c) ]
    /\ UNCHANGED << tcs34725Initialised, tcs34725IntegrationTime, tcs34725Gain,
                    regENABLE, regATIME, regCONTROL, devID,
                    log, ret, out, call, lx, nest >>

\* The derivations alone: an instance constructed with any integration time
\* and gain, and calls of calculateColorTemperature_dn40 on it.
InitCalc == Init /\ devID = ID_TCS34725

NextCalc == CalcDN40

SpecCalc == InitCalc /\ [][NextCalc]_vars

-----------------------------------------------------------------------------
(* calculateLux.                                                           *)

\* coef * x / 100000 for 0 <= x < 65536, as whole + frac / 100000, computed
\* in two parts so that no product exceeds 31 bits.
Scaled(coef, x) ==
    LET a == coef * (x \div 1000)
        b == coef * (x % 1000)
    IN  [ whole |-> (a \div 100) + (b \div 100000),
          frac  |-> ((a % 100) * 1000) + (b % 100000) ]

\* float illuminance = -0.32466F * r + 1.57837F * g - 0.73191F * b, as
\* whole + frac / 100000 with 0 <= frac < 100000 (the rounding of float,
\* which scales exactly when r, g and b are doubled, is left out).
illuminance(r, g, b) ==
    LET tr == Scaled(32466, r)
        tg == Scaled(157837, g)
        tb == Scaled(73191, b)
        whole == tg.whole - tr.whole - tb.whole
        frac  == tg.frac - tr.frac - tb.frac
        carry == IF frac >= 0
                 THEN frac \div 100000
                 ELSE 0 - ((99999 - frac) \div 100000)
    IN  [ whole |-> whole + carry, frac |-> frac - (carry * 100000) ]

\* The illuminance truncated toward zero.
truncated(y) == IF y.whole < 0 /\ y.frac > 0 THEN y.whole + 1 ELSE y.whole

\* x mod 2^16 for an integer of either sign.
Wrap16(x) == IF x >= 0 THEN U16(x) ELSE U16(65536 - U16(0 - x))

\* (uint16_t)illuminance.  A value that truncates into 0..65535 converts to
\* it; the conversion of any other value is undefined: builds leave the low
\* 16 bits of the truncated value, or the nearest end of the range.
toUint16(y) ==
    LET t == truncated(y)
    IN  IF t >= 0 /\ t <= 65535
        THEN Returns({t})
        ELSE Returns({Wrap16(t), IF t < 0 THEN 0 ELSE 65535})

\* A variant of calculateLux that rounds the illuminance to the nearest
\* integer.
calculateLux_rounded(r, g, b) ==
    LET y == illuminance(r, g, b)
    IN  toUint16(IF y.frac >= 50000
                 THEN [whole |-> y.whole + 1, frac |-> 0]
                 ELSE [whole |-> y.whole, frac |-> 0])

\* What calculateLux(r, g, b) can return.
calculateLux(r, g, b) == toUint16(illuminance(r, g, b))

\* Inputs of calculateLux.
LuxCounts == {0, 1, 1000, 10000, 30000, 65535}

\* One call of the function per behaviour: it is pure.
CalcLux ==
    /\ lx = NoLux
    /\ \E r \in LuxCounts, g \in LuxCounts, b \in LuxCounts :
          lx' = [ r |-> r, g |-> g, b |-> b,
                  outcomes |-> calculateLux(r, g, b) ]
    /\ UNCHANGED << tcs34725Initialised, tcs34725IntegrationTime, tcs34725Gain,
                    regENABLE, regATIME, regCONTROL, devID,
                    log, ret, out, call, dn, nest >>

NextLux == CalcLux

SpecLux == InitCalc /\ [][NextLux]_vars

-----------------------------------------------------------------------------
(* Properties.                                                             *)

\* The settling delay spec section 4.2 maps each integration time to.
SpecDelay(it) ==
    CASE it = TCS34725_INTEGRATIONTIME_2_4MS -> 3
      [] it = TCS34725_INTEGRATIONTIME_24MS  -> 24
      [] it = TCS34725_INTEGRATIONTIME_50MS  -> 50
      [] it = TCS34725_INTEGRATIONTIME_101MS -> 101
      [] it = TCS34725_INTEGRATIONTIME_154MS -> 154
      [] it = TCS34725_INTEGRATIONTIME_700MS -> 700

ValidIDs == {ID_TCS34725, ID_TCS34721}

PON_AEN == TCS34725_ENABLE_PON + TCS34725_ENABLE_AEN

RECURSIVE SumDelays(_)
\* The total time a call blocked: the sum of the delays in its trace.
SumDelays(l) ==
    IF l = << >> THEN 0
    ELSE (IF Head(l).op = "delay" THEN Head(l).val ELSE 0) + SumDelays(Tail(l))

\* The events of a trace that satisfy Test, in order.
Only(l, Test(_)) == SelectSeq(l, Test)

IsAtimeWrite(e)  == e.op = "write8" /\ e.reg = "ATIME"
IsChannelRead(e) == e.op = "read16"
IsIdRead(e)      == e.op = "read8" /\ e.reg = "ID"

\* The four channel reads of sample k, in the order clear, red, green, blue.
ChannelReads(k) ==
    << Event("read16", "CDATAL", ChannelData(k, "CDATAL")),
       Event("read16", "RDATAL", ChannelData(k, "RDATAL")),
       Event("read16", "GDATAL", ChannelData(k, "GDATAL")),
       Event("read16", "BDATAL", ChannelData(k, "BDATAL")) >>

\* The caller's outputs when they hold sample k unchanged.
SampleOut(k) ==
    [ r |-> ChannelData(k, "RDATAL"), g |-> ChannelData(k, "GDATAL"),
      b |-> ChannelData(k, "BDATAL"), c |-> ChannelData(k, "CDATAL") ]

\* enable() with integration time it stored.
EnableTrace(it) ==
    << Event("write8", "ENABLE", TCS34725_ENABLE_PON),
       Event("delay", "-", 3),
       Event("write8", "ENABLE", PON_AEN),
       Event("delay", "-", SpecDelay(it)) >>

(* ---- C1 ---- *)

\* The scenario of C1: the first call on an instance constructed with 101 ms
\* and 16x is getRawDataOneShot, and the device answers identity 0x44.
C1_Scenario ==
    /\ call.op = "getRawDataOneShot"
    /\ ~call.pre.init
    /\ call.pre.atime = Unwritten /\ call.pre.ctrl = Unwritten
    /\ call.pre.it = TCS34725_INTEGRATIONTIME_101MS
    /\ call.pre.gain = TCS34725_GAIN_16X
    /\ call.pre.id = ID_TCS34725
    /\ call.pre.en = 0

C1_InitTrace ==
    << Event("read8", "ID", ID_TCS34725),
       Event("write8", "ATIME", TCS34725_INTEGRATIONTIME_101MS),
       Event("write8", "CONTROL", TCS34725_GAIN_16X) >>
    \o EnableTrace(TCS34725_INTEGRATIONTIME_101MS)

\* C1 as claimed: in the scenario the trace of the call is exactly identity
\* read, ATIME write, CONTROL write, ENABLE=PON, delay(3), ENABLE=PON|AEN,
\* delay(101), the reads of clear, red, green, blue, and the ENABLE write
\* that clears PON|AEN; and the four values come back unchanged.
C1_AsClaimed ==
    C1_Scenario =>
        /\ log = C1_InitTrace \o ChannelReads(call.arg)
                 \o << Event("write8", "ENABLE", 0) >>
        /\ out = SampleOut(call.arg)

\* C1, amended: in the scenario the trace of the call is identity read, ATIME
\* write, CONTROL write, enable() (ENABLE=PON, delay(3), ENABLE=PON|AEN,
\* delay(101)) from begin(), enable() a second time from getRawDataOneShot
\* itself, the reads of clear, red, green, blue, delay(101), an ENABLE read
\* and the ENABLE write that clears PON|AEN; the four values come back
\* unchanged.
C1_OneShotSequence ==
    C1_Scenario =>
        /\ log = C1_InitTrace
                 \o EnableTrace(TCS34725_INTEGRATIONTIME_101MS)
                 \o ChannelReads(call.arg)
                 \o << Event("delay", "-", 101),
                       Event("read8", "ENABLE", PON_AEN),
                       Event("write8", "ENABLE", 0) >>
        /\ out = SampleOut(call.arg)

C1_Witness ==
    /\ C1_Scenario
    /\ call.arg = 1
    /\ out.c = ChannelData(1, "CDATAL")
    /\ Len(log) = 18

(* ---- C2 ---- *)

\* C2: enable() writes ENABLE=PON, blocks 3 ms, writes ENABLE=PON|AEN, then
\* blocks for the mapped delay of the stored integration time; its delays
\* sum to 3 ms plus the mapped delay and ENABLE ends with PON and AEN set.
C2_EnableSequence ==
    call.op = "enable" =>
        /\ tcs34725IntegrationTime = call.pre.it
        /\ log = EnableTrace(tcs34725IntegrationTime)
        /\ SumDelays(log) = 3 + SpecDelay(tcs34725IntegrationTime)
        /\ Bit(regENABLE, 0) = 1 /\ Bit(regENABLE, 1) = 1

C2_Witness ==
    /\ call.op = "enable"
    /\ tcs34725IntegrationTime = TCS34725_INTEGRATIONTIME_154MS
    /\ SumDelays(log) = 157
    /\ regENABLE = PON_AEN

(* ---- C3 ---- *)

\* C3: begin() returns true exactly when the identity byte read is 0x44 or
\* 0x10; when it returns true the instance is initialised, ATIME holds the
\* stored integration-time code, CONTROL the stored gain code, and ENABLE
\* holds PON|AEN.
C3_BeginSuccess ==
    call.op = "begin" =>
        /\ ret \in {"true", "false"}
        /\ Head(log) = Event("read8", "ID", call.pre.id)
        /\ (ret = "true") <=> (call.pre.id \in ValidIDs)
        /\ ret = "true" =>
              /\ tcs34725Initialised
              /\ tcs34725IntegrationTime = call.pre.it
              /\ tcs34725Gain = call.pre.gain
              /\ regATIME = call.pre.it
              /\ regCONTROL = call.pre.gain
              /\ regENABLE = PON_AEN

C3_Witness ==
    /\ call.op = "begin"
    /\ call.pre.id = ID_TCS34721
    /\ ~call.pre.init
    /\ ret = "true"
    /\ tcs34725Initialised
    /\ regATIME = TCS34725_INTEGRATIONTIME_50MS

(* ---- C4 ---- *)

\* C4: when the identity read in begin() is neither 0x44 nor 0x10, begin()
\* returns false and changes nothing: the initialised flag (false stays
\* false), the stored integration time and gain and the registers ATIME,
\* CONTROL and ENABLE are as before, the identity read is the only bus
\* transaction; and a begin() called next, with the device now answering a
\* valid identity, returns true and initialises the instance.
C4_BeginFailure ==
    (call.op = "begin" /\ call.pre.id \notin ValidIDs) =>
        /\ ret = "false"
        /\ tcs34725Initialised = call.pre.init
        /\ ~call.pre.init => ~tcs34725Initialised
        /\ tcs34725IntegrationTime = call.pre.it
        /\ tcs34725Gain = call.pre.gain
        /\ regATIME = call.pre.atime
        /\ regCONTROL = call.pre.ctrl
        /\ regENABLE = call.pre.en
        /\ log = << Event("read8", "ID", call.pre.id) >>
        /\ devID \in ValidIDs =>
              /\ begin(World).ret = "true"
              /\ begin(World).init

C4_Witness ==
    /\ call.op = "begin"
    /\ call.pre.id = ID_OTHER
    /\ ~call.pre.init
    /\ ret = "false"
    /\ ~tcs34725Initialised
    /\ devID = ID_TCS34725
    /\ begin(World).ret = "true"

(* ---- C5 ---- *)

\* A call of a setter or of an acquisition method on an uninitialised
\* instance.
C5_LazyCall ==
    /\ call.op \in {"setIntegrationTime", "setGain", "getRawData",
                    "getRawDataOneShot"}
    /\ ~call.pre.init

C5_Acquisition == call.op \in {"getRawData", "getRawDataOneShot"}

\* C5 as claimed: such a call starts with the identity read, and when the
\* identity does not match the instance stays uninitialised, no channel
\* register is read and the caller's r, g, b, c are not written.
C5_AsClaimed ==
    C5_LazyCall =>
        /\ Head(log) = Event("read8", "ID", call.pre.id)
        /\ call.pre.id \notin ValidIDs =>
              /\ ~tcs34725Initialised
              /\ Only(log, IsChannelRead) = << >>
              /\ out = NoOut

\* C5, amended: such a call starts with the identity read, and when the
\* identity does not match the instance stays uninitialised and the call
\* carries on: a setter reads no channel register and writes no output,
\* while getRawData and getRawDataOneShot still read the four channel
\* registers and write to r, g, b, c what the device answers.
C5_LazyInitialisation ==
    C5_LazyCall =>
        /\ Head(log) = Event("read8", "ID", call.pre.id)
        /\ call.pre.id \notin ValidIDs =>
              /\ ~tcs34725Initialised
              /\ IF C5_Acquisition
                 THEN /\ Only(log, IsChannelRead) = ChannelReads(call.arg)
                      /\ out = SampleOut(call.arg)
                 ELSE /\ Only(log, IsChannelRead) = << >>
                      /\ out = NoOut

C5_Witness ==
    /\ call.op = "getRawData"
    /\ ~call.pre.init
    /\ call.pre.id = ID_OTHER
    /\ ~tcs34725Initialised
    /\ Len(log) = 6
    /\ out = SampleOut(1)

(* ---- C6 ---- *)

\* C6 as claimed: between public calls the in-memory integration time is
\* the last value written to ATIME and the in-memory gain is the last value
\* written to CONTROL.
C6_AsClaimed ==
    /\ tcs34725IntegrationTime = regATIME
    /\ tcs34725Gain = regCONTROL

\* C6, amended: between public calls, once the driver has written ATIME the
\* in-memory integration time is the last value written to it, and once it
\* has written CONTROL the in-memory gain is the last value written to it
\* (after construction, and after calls that write neither register, the
\* stored values have not reached the device).
C6_MirrorsDevice ==
    /\ regATIME # Unwritten => tcs34725IntegrationTime = regATIME
    /\ regCONTROL # Unwritten => tcs34725Gain = regCONTROL

C6_Witness ==
    /\ call.op = "setGain"
    /\ call.pre.init
    /\ call.arg # call.pre.gain
    /\ regCONTROL = call.arg
    /\ tcs34725Gain = call.arg
    /\ regATIME = tcs34725IntegrationTime

(* ---- C7 ---- *)

\* C7: after setIntegrationTime(X), from an initialised or an uninitialised
\* instance, the in-memory integration time is X and the last value written
\* to ATIME is X; when the call initialises the instance, begin() writes
\* the stored constructor value to ATIME first and X is written after it.
C7_SetIntegrationTime ==
    call.op = "setIntegrationTime" =>
        /\ tcs34725IntegrationTime = call.arg
        /\ regATIME = call.arg
        /\ LET writes == Only(log, IsAtimeWrite)
           IN  IF ~call.pre.init /\ call.pre.id \in ValidIDs
               THEN writes = << Event("write8", "ATIME", call.pre.it),
                                Event("write8", "ATIME", call.arg) >>
               ELSE writes = << Event("write8", "ATIME", call.arg) >>

C7_Witness ==
    /\ call.op = "setIntegrationTime"
    /\ ~call.pre.init
    /\ call.pre.id = ID_TCS34725
    /\ call.pre.it = TCS34725_INTEGRATIONTIME_700MS
    /\ call.arg = TCS34725_INTEGRATIONTIME_24MS
    /\ tcs34725IntegrationTime = TCS34725_INTEGRATIONTIME_24MS
    /\ regATIME = TCS34725_INTEGRATIONTIME_24MS

(* ---- C8 ---- *)

\* C8: disable() reads ENABLE and writes back the value read with bits 0
\* (PON) and 1 (AEN) cleared and every other bit, bit 4 (AIEN) among them,
\* as read; ATIME, CONTROL, the initialised flag and the stored integration
\* time and gain are unchanged.
C8_Disable ==
    call.op = "disable" =>
        /\ log = << Event("read8", "ENABLE", call.pre.en),
                    Event("write8", "ENABLE", regENABLE) >>
        /\ Bit(regENABLE, 0) = 0
        /\ Bit(regENABLE, 1) = 0
        /\ \A i \in 2..7 : Bit(regENABLE, i) = Bit(call.pre.en, i)
        /\ regATIME = call.pre.atime
        /\ regCONTROL = call.pre.ctrl
        /\ tcs34725Initialised = call.pre.init
        /\ tcs34725IntegrationTime = call.pre.it
        /\ tcs34725Gain = call.pre.gain

C8_Witness ==
    /\ call.op = "disable"
    /\ call.pre.en = TCS34725_ENABLE_AIEN + PON_AEN
    /\ regENABLE = TCS34725_ENABLE_AIEN

(* ---- C9 ---- *)

\* C9: with sat = 65535 when (256 - code) > 63 and otherwise
\* 1024 * (256 - code) less a quarter of itself,
\* calculateColorTemperature_dn40 returns exactly 0 whenever c >= sat,
\* whatever r, g, b and the gain; and the 16-bit sat of the code is that
\* value: 1024 * (256 - code) fits in 16 bits.
C9_SaturatedIsZero ==
    dn # NoDN =>
        /\ saturationLevel(tcs34725IntegrationTime)
             = SpecSat(tcs34725IntegrationTime)
        /\ (256 - tcs34725IntegrationTime) <= 63 =>
              1024 * (256 - tcs34725IntegrationTime) <= 65535
        /\ dn.c >= SpecSat(tcs34725IntegrationTime) =>
              dn.outcomes = Returns({0})

C9_Witness ==
    /\ dn # NoDN
    /\ tcs34725IntegrationTime = TCS34725_INTEGRATIONTIME_101MS
    /\ tcs34725Gain = TCS34725_GAIN_60X
    /\ dn.c = 33024
    /\ dn.r = 30000 /\ dn.g = 1 /\ dn.b = 30000
    /\ dn.outcomes = Returns({0})

(* ---- C10 ---- *)

\* C10 as claimed: every call of getRawDataOneShot blocks for 3 + 2*D ms in
\* total, D the mapped delay of the configured integration time.
C10_AsClaimed ==
    call.op = "getRawDataOneShot" =>
        SumDelays(log) = 3 + 2 * SpecDelay(tcs34725IntegrationTime)

\* C10, amended: a call of getRawDataOneShot on an initialised instance, or
\* one whose initialisation fails on the identity, blocks for 3 + 2*D ms in
\* total; the call that initialises the instance runs enable() twice and
\* blocks for 6 + 3*D ms.
C10_OneShotDelay ==
    call.op = "getRawDataOneShot" =>
        /\ tcs34725IntegrationTime = call.pre.it
        /\ SumDelays(log) =
              IF ~call.pre.init /\ call.pre.id \in ValidIDs
              THEN 6 + 3 * SpecDelay(tcs34725IntegrationTime)
              ELSE 3 + 2 * SpecDelay(tcs34725IntegrationTime)

C10_Witness ==
    /\ call.op = "getRawDataOneShot"
    /\ call.pre.init
    /\ tcs34725IntegrationTime = TCS34725_INTEGRATIONTIME_50MS
    /\ SumDelays(log) = 103

(* ---- C11 ---- *)

\* ir, r2 and b2 of spec section 4.5 step 3, in unbounded integers.
SpecIR(r, g, b, c) == IF r + g + b > c THEN (r + g + b - c) \div 2 ELSE 0
SpecR2(r, g, b, c) == r - SpecIR(r, g, b, c)
SpecB2(r, g, b, c) == b - SpecIR(r, g, b, c)

\* The colour temperature of spec section 4.5 step 7, in unbounded integers.
SpecCCT(r, g, b, c) ==
    TruncDiv(3810 * SpecB2(r, g, b, c), SpecR2(r, g, b, c)) + 1391

\* C11: for every sample with c < sat whose IR-compensated red r2 is not 0,
\* calculateColorTemperature_dn40 returns (3810 * b2) / r2 + 1391 with
\* ir = (r+g+b-c)/2 when r+g+b > c and 0 otherwise, r2 = r - ir, b2 = b - ir:
\* the 16-bit value returned is that reference value.
C11_AsClaimed ==
    ( /\ dn # NoDN
      /\ dn.c < SpecSat(tcs34725IntegrationTime)
      /\ SpecR2(dn.r, dn.g, dn.b, dn.c) # 0 ) =>
        dn.outcomes = Returns({SpecCCT(dn.r, dn.g, dn.b, dn.c)})

(* ---- C17 ---- *)

\* C17: for every sample with c < sat the IR-compensated values do not
\* exceed the raw ones, r2 <= r, g2 <= g, b2 <= b: ir fits in 16 bits and
\* none of r - ir, g - ir, b - ir wraps around.
C17_AsClaimed ==
    (dn # NoDN /\ dn.c < saturationLevel(tcs34725IntegrationTime)) =>
        LET rgb == removeIR(dn.bits, dn.r, dn.g, dn.b, dn.c)
        IN  /\ rgb.ir = SpecIR(dn.r, dn.g, dn.b, dn.c)
            /\ rgb.r2 <= dn.r
            /\ rgb.g2 <= dn.g
            /\ rgb.b2 <= dn.b

(* ---- C18 ---- *)

\* C18: the value calculateColorTemperature_dn40 returns does not depend on
\* the gain: an instance that differs from this one in its gain only
\* returns, for the same r, g, b, c and integration time, the same value.
C18_GainIndependent ==
    dn # NoDN =>
        \A gain \in tcs34725Gain_t :
            calculateColorTemperature_dn40(
                dn.bits, tcs34725IntegrationTime, gain,
                dn.r, dn.g, dn.b, dn.c) = dn.outcomes

C18_Witness ==
    /\ dn # NoDN
    /\ tcs34725Gain = TCS34725_GAIN_60X
    /\ tcs34725IntegrationTime = TCS34725_INTEGRATIONTIME_700MS
    /\ dn.r = 30000 /\ dn.g = 30000 /\ dn.b = 30000 /\ dn.c = 65534
    /\ dn.outcomes = Returns({5201})
    /\ calculateColorTemperature_dn40(
           dn.bits, tcs34725IntegrationTime, TCS34725_GAIN_1X,
           dn.r, dn.g, dn.b, dn.c) = Returns({5201})

(* ---- C12 ---- *)

\* The call whose result lx holds has arguments that can be doubled.
C12_Doubles ==
    /\ lx # NoLux
    /\ 2 * lx.r <= 65535 /\ 2 * lx.g <= 65535 /\ 2 * lx.b <= 65535

\* Every value calculateLux can return for the doubled arguments is twice a
\* value it can return for the arguments, up to the truncation.
C12_Linear ==
    \A v \in lx.outcomes.values :
        \A v2 \in calculateLux(2 * lx.r, 2 * lx.g, 2 * lx.b).values :
            v2 - (2 * v) \in {-1, 0, 1}

\* C12 as claimed: calculateLux(0,0,0) is 0, and for all 16-bit r, g, b with
\* 16-bit 2r, 2g, 2b, calculateLux(2r,2g,2b) is 2*calculateLux(r,g,b) up to
\* the truncation to an unsigned 16-bit integer.
C12_AsClaimed ==
    /\ calculateLux(0, 0, 0) = Returns({0})
    /\ C12_Doubles => C12_Linear

\* The doubled illuminance truncates to a value of the return type.
C12_InRange ==
    LET t == truncated(illuminance(2 * lx.r, 2 * lx.g, 2 * lx.b))
    IN  t >= 0 /\ t <= 65535

\* C12, amended: calculateLux(0,0,0) is 0, and for all 16-bit r, g, b with
\* 16-bit 2r, 2g, 2b whose doubled illuminance truncates into 0..65535,
\* calculateLux(2r,2g,2b) is 2*calculateLux(r,g,b) or one more.
C12_LinearInRange ==
    /\ (lx # NoLux /\ lx.r = 0 /\ lx.g = 0 /\ lx.b = 0) =>
          lx.outcomes = Returns({0})
    /\ (C12_Doubles /\ C12_InRange) =>
          /\ Cardinality(lx.outcomes.values) = 1
          /\ \A v \in lx.outcomes.values :
                calculateLux(2 * lx.r, 2 * lx.g, 2 * lx.b)
                    \in {Returns({2 * v}), Returns({(2 * v) + 1})}

C12_Witness ==
    /\ lx # NoLux
    /\ lx.r = 1 /\ lx.g = 10000 /\ lx.b = 1
    /\ lx.outcomes = Returns({15782})
    /\ calculateLux(2, 20000, 2) = Returns({31565})

(* ---- C13 ---- *)

\* One event of a call's trace applied to s: s.en and s.atime are the ENABLE
\* and ATIME registers, s.armed whether a write has set AEN, s.since the time
\* elapsed since the most recent such write, s.reads the channel reads seen
\* and s.ok whether each of them found PON and AEN set and at least the
\* integration delay of the value in ATIME elapsed.
C13_Step(s, e) ==
    CASE e.op = "delay" -> [s EXCEPT !.since = @ + e.val]
      [] e.op = "write8" /\ e.reg = "ENABLE" ->
            IF Bit(e.val, 1) = 1
            THEN [s EXCEPT !.en = e.val, !.armed = TRUE, !.since = 0]
            ELSE [s EXCEPT !.en = e.val]
      [] e.op = "write8" /\ e.reg = "ATIME" -> [s EXCEPT !.atime = e.val]
      [] e.op = "read16" ->
            [s EXCEPT !.reads = @ + 1,
                      !.ok = /\ @
                             /\ Bit(s.en, 0) = 1 /\ Bit(s.en, 1) = 1
                             /\ s.armed
                             /\ s.atime \in tcs34725IntegrationTime_t
                             /\ s.since >= SpecDelay(s.atime)]
      [] OTHER -> s

RECURSIVE C13_Replay(_, _)
C13_Replay(l, s) ==
    IF l = << >> THEN s ELSE C13_Replay(Tail(l), C13_Step(s, Head(l)))

\* C13: in every getRawDataOneShot on a device with a valid identity each of
\* the four channel reads happens with PON and AEN set in ENABLE and at
\* least the integration delay of the value in ATIME after the most recent
\* write that set AEN; when the call returns PON and AEN are clear.
C13_OneShotAcquires ==
    (call.op = "getRawDataOneShot" /\ call.pre.id \in ValidIDs) =>
        LET s == C13_Replay(log, [ en |-> call.pre.en, atime |-> call.pre.atime,
                                   armed |-> FALSE, since |-> 0,
                                   reads |-> 0, ok |-> TRUE ])
        IN  /\ s.ok
            /\ s.reads = 4
            /\ s.en = regENABLE
            /\ Bit(regENABLE, 0) = 0 /\ Bit(regENABLE, 1) = 0

C13_Witness ==
    /\ call.op = "getRawDataOneShot" /\ call.pre.id \in ValidIDs
    /\ call.pre.init /\ call.pre.en = 0
    /\ tcs34725IntegrationTime = TCS34725_INTEGRATIONTIME_154MS
    /\ Len(log) = 11
    /\ log[3] = Event("write8", "ENABLE", PON_AEN)
    /\ log[4] = Event("delay", "-", 154)
    /\ log[5].op = "read16" /\ log[8].op = "read16"
    /\ regENABLE = 0

(* ---- C14 ---- *)

\* C14 as claimed: bit 4 (AIEN) of ENABLE is changed only by setInterrupt:
\* enable, disable, setIntegrationTime, setGain, getRawData, getRawDataOneShot
\* (and begin) leave it as it was, so it stays set after setInterrupt(true);
\* and setInterrupt changes bit 4 only, leaving PON and AEN as read.
C14_AsClaimed ==
    /\ (call.op # "constructor" /\ call.op # "setInterrupt") =>
          Bit(regENABLE, 4) = Bit(call.pre.en, 4)
    /\ call.op = "setInterrupt" =>
          /\ Bit(regENABLE, 4) = (IF call.arg THEN 1 ELSE 0)
          /\ And8(regENABLE, Not8(TCS34725_ENABLE_AIEN))
                = And8(call.pre.en, Not8(TCS34725_ENABLE_AIEN))

(* ---- C15 ---- *)

\* The identity reads of the most recent call that returned 0x44 or 0x10.
C15_ValidIdReads ==
    SelectSeq(log, LAMBDA e : IsIdRead(e) /\ e.val \in ValidIDs)

\* C15: the initialised flag is monotonic: false after construction, it
\* becomes true only in a call that read the identity 0x44 or 0x10 (inside
\* begin()), no call makes it false again, and once it is true
\* setIntegrationTime, setGain, getRawData and getRawDataOneShot perform no
\* identity read.
C15_FlagMonotonic ==
    /\ call = NoCall => ~tcs34725Initialised
    /\ call # NoCall =>
          /\ call.pre.init => tcs34725Initialised
          /\ (~call.pre.init /\ tcs34725Initialised) =>
                /\ C15_ValidIdReads # << >>
                /\ call.op \in {"begin", "setIntegrationTime", "setGain",
                                "getRawData", "getRawDataOneShot"}
          /\ (call.pre.init /\ call.op \in {"setIntegrationTime", "setGain",
                                            "getRawData", "getRawDataOneShot"}) =>
                Only(log, IsIdRead) = << >>

C15_Witness ==
    /\ call.op = "getRawDataOneShot"
    /\ call.pre.init /\ call.pre.id = ID_OTHER
    /\ tcs34725Initialised
    /\ Len(log) = 11
    /\ Only(log, IsIdRead) = << >>

(* ---- C16 ---- *)

\* The setters and the acquisition methods.
C16_Methods ==
    {"setIntegrationTime", "setGain", "getRawData", "getRawDataOneShot"}

\* The identity reads and the bus transactions of the most recent call.
C16_IdReads == Len(Only(log, IsIdRead))
C16_BusTransactions == Len(SelectSeq(log, LAMBDA e : e.op # "delay"))

\* C16 as claimed: begin() is never active more than once at a time, and a
\* call of a setter or of an acquisition method performs at most one identity
\* read and a bounded number of bus transactions.
C16_AsClaimed ==
    /\ nest <= 1
    /\ call.op \in C16_Methods =>
          /\ C16_IdReads <= 1
          /\ C16_BusTransactions <= 13

\* The call is a getRawDataOneShot on an uninitialised instance whose
\* identity check fails.
C16_FailedOneShot ==
    /\ call.op = "getRawDataOneShot"
    /\ ~call.pre.init
    /\ call.pre.id \notin ValidIDs

\* C16, amended: every call returns with begin() never active more than once
\* at a time and at most 13 bus transactions; a call of a setter or of an
\* acquisition method performs at most one identity read, except
\* getRawDataOneShot on an uninitialised instance whose identity check
\* fails, which performs two.
C16_Bounded ==
    /\ nest <= 1
    /\ C16_BusTransactions <= 13
    /\ (call.op \in C16_Methods /\ ~C16_FailedOneShot) => C16_IdReads <= 1
    /\ (call.op \in C16_Methods /\ C16_FailedOneShot) => C16_IdReads = 2

C16_Witness ==
    /\ call.op = "setGain"
    /\ ~call.pre.init /\ call.pre.id \in ValidIDs
    /\ nest = 1
    /\ C16_IdReads = 1
    /\ Len(Only(log, LAMBDA e : e.op = "write8" /\ e.reg = "CONTROL")) = 2

=============================================================================
